---- MODULE Spec2Model ----
(***************************************************************************)
(* Issue-group store (issue_groups, message_groups) and the dashboard      *)
(* clients that correct it: split a message into a new group, merge a      *)
(* group into another one.  Every supabase call of a handler is one step   *)
(* of the client that issued it; the store executes each call atomically.  *)
(* Similarity scores are kept in hundredths (1.0 is 100).                  *)
(***************************************************************************)
EXTENDS Integers, FiniteSets, Sequences, TLC

\* ---------------------------------------------------------------- bounds
\* Group ids are handed out in increasing order (gen_random_uuid() never
\* repeats); at most MaxGroups ids are ever allocated.
MaxGroups == 4

\* The issue modal is opened at most MaxOpens times in one run (every
\* completed correction closes it).
MaxOpens == 2

\* A dashboard has at most MaxFetches calls of fetchIssueGroups in flight;
\* calls in the same state are kept once.
MaxFetches == 2

\* Groups in the list a dashboard filters.
MaxListed == 2

\* The rows of issue_groups are updated at most MaxUpdates times in one
\* run; updated_at counts the updates of a row (NOW() never goes back).
MaxUpdates == 2

\* Browser sessions with the dashboard open.
Clients == {"A", "B"}

\* Rows of the messages table; the frontend never writes this table.
\* m1..m3 are grouped from the start, m4..m9 are stored and wait for the
\* grouping engine.
Messages == {"m1", "m2", "m3", "m4", "m5", "m6", "m7", "m8", "m9"}

\* the messages that wait for the grouping engine at the start
Waiting == {"m4", "m5", "m6", "m7", "m8", "m9"}

category == [m \in Messages |-> IF m \in {"m3", "m8", "m9"} THEN "feature" ELSE "bug"]

\* summary TEXT NOT NULL of the message
summary == [m \in Messages |-> <<"about", m>>]

\* no thread is registered for the group, the message is in no thread
NoThread == "none"

\* thread_ts of the message
thread == [m \in Messages |-> IF m \in {"m4", "m5"} THEN "t1" ELSE NoThread]

\* timestamp of the message, as its rank in arrival order
Recency == [m \in Messages |->
               CASE m = "m1" -> 1 [] m = "m2" -> 2 [] m = "m3" -> 3 [] m = "m4" -> 4
                 [] m = "m5" -> 5 [] m = "m6" -> 6 [] m = "m7" -> 7 [] m = "m8" -> 8 [] OTHER -> 9]

\* Cosine similarity of the embeddings of two messages, in hundredths.
Similarity(a, b) ==
    LET pair == {a, b}
    IN  CASE pair = {"m4", "m1"} -> 55
          [] pair = {"m4", "m3"} -> 95
          [] pair = {"m4", "m2"} -> 40
          [] pair = {"m5", "m1"} -> 62
          [] pair = {"m5", "m4"} -> 10
          [] pair = {"m6", "m7"} -> 88
          [] pair = {"m8", "m3"} -> 60
          [] pair = {"m8", "m1"} -> 97
          [] pair = {"m9", "m3"} -> 75
          [] pair = {"m9", "m8"} -> 75
          [] OTHER -> 20

\* similarity threshold (default: 0.60)
Threshold == 60

GroupIds == 1..MaxGroups

\* selectedGroup === null
None == 0

\* similarity_score: 1.0
SelfSimilarity == 100

GroupCategories == {"support", "bug", "feature", "question"}

GroupStatuses == {"open", "closed"}

\* CHECK (priority IN ('critical', 'high', 'medium', 'low'))
Priorities == {"critical", "high", "medium", "low"}

\* CHECK (workflow_status IN ('backlog', 'todo', ...))
WorkflowStatuses == {"backlog", "todo", "in_progress", "blocked", "resolved", "closed"}

\* assignee: string | null, due_date: string | null -- a column no insert
\* names holds null
Null == "null"

\* priority TEXT DEFAULT 'medium'
DefaultPriority == "medium"

\* workflow_status TEXT DEFAULT 'backlog'
DefaultWorkflowStatus == "backlog"

\* Titles are sequences of characters.
SplitTitle(m) == <<category[m], ":", m>>

VARIABLES
    issue_groups,     \* id -> row of every stored group
    message_groups,   \* set of rows [message_id, group_id, similarity_score]
    nextId,           \* next group id the store will generate
    opens,            \* number of times a modal has been opened so far
    selectedGroup,    \* per client: id of the group shown in the modal
    groupMessages,    \* per client: message ids loaded by fetchGroupMessages
    fetching,         \* per client: group id of the fetch in flight (loadingMessages)
    availableGroups,  \* per client: merge targets loaded by handleOpenMergeModal
    showMergeModal,   \* per client
    pc,               \* per client: position inside the running handler
    h,                \* per client: values captured by the running handler
    pre,              \* per client: store contents when the handler started
    rejected,         \* per client: some write of the running handler returned an error
    sawPartialMerge,  \* some fetch read the store in the middle of a merge
    movedAcross,      \* some merge put a message into a group of another category
    selectedFields,   \* per client: the fields of the selectedGroup object it holds
    dash              \* per client: state of the useIssueGroups hook and its channel

vars == <<issue_groups, message_groups, nextId, opens, selectedGroup, groupMessages,
          fetching, availableGroups, showMergeModal, pc, h, pre, rejected,
          sawPartialMerge, movedAcross, selectedFields, dash>>

storeVars == <<issue_groups, message_groups, nextId>>

modalVars == <<opens, selectedGroup, groupMessages, fetching, availableGroups, showMergeModal,
               selectedFields>>

\* ------------------------------------------------------------ the store

Groups == DOMAIN issue_groups

Row(m, g, s) == [message_id |-> m, group_id |-> g, similarity_score |-> s]

\* select ... from message_groups where group_id = g
MembersIn(rows, g) == {r.message_id : r \in {x \in rows : x.group_id = g}}

Members(g) == MembersIn(message_groups, g)

\* the groups a message has a membership row in
GroupsOfIn(rows, m) == {r.group_id : r \in {x \in rows : x.message_id = m}}

GroupsOf(m) == GroupsOfIn(message_groups, m)

\* PRIMARY KEY (message_id, group_id) and the two REFERENCES clauses
MembershipInsertAllowed(rows, groups, m, g) ==
    /\ m \in Messages
    /\ g \in groups
    /\ ~\E r \in rows : r.message_id = m /\ r.group_id = g

\* a delete without the group_id filter
DeleteMembershipAnyGroup(rows, m, g) == {r \in rows : r.message_id # m}

\* a delete that removes nothing
DeleteMembershipKeeps(rows, m, g) == rows

\* delete from message_groups where message_id = m and group_id = g
DeleteMembership(rows, m, g) ==
    {r \in rows : ~(r.message_id = m /\ r.group_id = g)}

\* a foreign key without ON DELETE CASCADE that lets the delete through
CascadeDeleteNone(rows, g) == rows

\* delete from issue_groups where id = g (memberships go by ON DELETE CASCADE)
CascadeDelete(rows, g) == {r \in rows : r.group_id # g}

RemoveGroup(groups, g) == [x \in (DOMAIN groups) \ {g} |-> groups[x]]

\* a row of issue_groups as the store completes it on insert
GroupRow(title, sum, cat, status, thr) ==
    [title |-> title, summary |-> sum, category |-> cat, status |-> status,
     priority |-> DefaultPriority, workflow_status |-> DefaultWorkflowStatus,
     assignee |-> Null, due_date |-> Null,
     updated_at |-> 0, thread |-> thr]

AddGroup(groups, g, row) ==
    [x \in (DOMAIN groups) \cup {g} |-> IF x = g THEN row ELSE groups[x]]

\* an update trigger that leaves updated_at alone
UpdatedAtKept(row) == row

\* BEFORE UPDATE ... FOR EACH ROW: NEW.updated_at = NOW()
UpdatedAtTrigger(row) == [row EXCEPT !.updated_at = @ + 1]

\* the CHECK constraints of issue_groups
GroupRowAllowed(row) ==
    /\ row.category \in GroupCategories
    /\ row.status \in GroupStatuses
    /\ row.priority \in Priorities
    /\ row.workflow_status \in WorkflowStatuses

\* update issue_groups set field = value where id = g: an error when the
\* new row breaks a CHECK, no error when no row has that id
UpdateAllowed(groups, g, field, value) ==
    g \in DOMAIN groups => GroupRowAllowed([groups[g] EXCEPT ![field] = value])

UpdateGroup(groups, g, field, value) ==
    IF g \in DOMAIN groups
    THEN [groups EXCEPT ![g] = UpdatedAtTrigger([@ EXCEPT ![field] = value])]
    ELSE groups

\* the fields of a group object the modal reads and overwrites
FieldsOf(row) == [title |-> row.title, priority |-> row.priority,
                  workflow_status |-> row.workflow_status, status |-> row.status]

NoFields == [title |-> <<>>, priority |-> DefaultPriority,
             workflow_status |-> DefaultWorkflowStatus, status |-> "open"]

Snapshot == [groups |-> issue_groups, rows |-> message_groups, nextId |-> nextId]

NoSnapshot == [groups |-> <<>>, rows |-> {}, nextId |-> 0]

\* the groups and memberships of a snapshot
StoreOf(s) == [groups |-> s.groups, rows |-> s.rows]

NoHandler == [group |-> None, msg |-> "m1", new |-> None, target |-> None,
              list |-> {}, todo |-> {}, cur |-> "m1"]

\* ------------------------------------------------------------ realtime

\* the postgres_changes events of one write, as <<table, event>> pairs
EventsBetween(groups0, rows0, groups1, rows1) ==
    {e \in {"issue_groups", "message_groups"} \X {"INSERT", "UPDATE", "DELETE"} :
        \/ e = <<"issue_groups", "INSERT">> /\ (DOMAIN groups1) \ (DOMAIN groups0) # {}
        \/ e = <<"issue_groups", "DELETE">> /\ (DOMAIN groups0) \ (DOMAIN groups1) # {}
        \/ e = <<"issue_groups", "UPDATE">>
              /\ \E g \in (DOMAIN groups0) \cap (DOMAIN groups1) : groups0[g] # groups1[g]
        \/ e = <<"message_groups", "INSERT">> /\ rows1 \ rows0 # {}
        \/ e = <<"message_groups", "DELETE">> /\ rows0 \ rows1 # {}}

\* a channel that listens to inserts only on message_groups
SubscribedInsertOnly(table, event) == table = "issue_groups" \/ event = "INSERT"

\* .on('postgres_changes', { event: '*', ..., table: 'issue_groups' }, ...)
\* .on('postgres_changes', { event: '*', ..., table: 'message_groups' }, ...)
Subscribed(table, event) == table \in {"issue_groups", "message_groups"}

\* Every client whose channel is joined gets the events it listens to;
\* events of one kind that are not yet delivered are kept once.
Publish(d, events) ==
    [c \in Clients |->
        IF d[c].subscribed
        THEN [d[c] EXCEPT !.pending = @ \cup {e \in events : Subscribed(e[1], e[2])}]
        ELSE d[c]]

\* the channels after the write this step makes
Published ==
    Publish(dash, EventsBetween(issue_groups, message_groups, issue_groups', message_groups'))

\* the clock reading (new Date()) of the first render, in days
FirstRender == 31

\* useIssueGroups before its effect has run: useState([]), useState(true),
\* useState(null) (error: TRUE when non-null), useState({}); with the filters
\* of Dashboard, useState('all'), useState('all'), useState(''), and the
\* clock reading of its last render
NoDash == [subscribed |-> FALSE, pending |-> {}, fetches |-> {},
           issueGroups |-> <<>>, messageCounts |-> <<>>,
           loading |-> TRUE, error |-> FALSE,
           selectedCategory |-> "all", selectedTimeFilter |-> "all",
           searchQuery |-> <<>>, now |-> FirstRender]

\* a fetch that clears the error when it starts
StartedClearsError(d) == [d EXCEPT !.loading = TRUE, !.error = FALSE]

\* fetchIssueGroups up to its first await: setLoading(true)
Started(d) == [d EXCEPT !.loading = TRUE]

\* catch (err) { setError(...) } finally { setLoading(false) }
Failed(d) == [d EXCEPT !.error = TRUE, !.loading = FALSE]

\* finally { setLoading(false) }
Ended(d) == [d EXCEPT !.loading = FALSE]

\* what Dashboard renders: if (loading) ...; if (error) ...; else the list
View(d) == IF d.loading THEN "loading" ELSE IF d.error THEN "error" ELSE "list"

\* a call of fetchIssueGroups whose first select has been sent
NewFetch == [phase |-> "groups_sent", ok |-> TRUE, groups |-> <<>>, counts |-> <<>>]

\* useIssueGroups after its effect has run: fetchIssueGroups() called, the
\* channel subscribed
Mounted == [Started(NoDash) EXCEPT !.subscribed = TRUE, !.fetches = {NewFetch}]

\* a loop body that sets the entry instead of adding to it
IncrementOnce(counts, g) ==
    [x \in (DOMAIN counts) \cup {g} |-> IF x = g THEN 1 ELSE counts[x]]

\* counts[row.group_id] = (counts[row.group_id] || 0) + 1
Increment(counts, g) ==
    [x \in (DOMAIN counts) \cup {g} |->
        IF x = g THEN (IF g \in DOMAIN counts THEN counts[g] ELSE 0) + 1 ELSE counts[x]]

\* data?.forEach((row) => ...), one row of the response at a time
RECURSIVE CountRows(_, _)
CountRows(rows, counts) ==
    IF rows = {}
    THEN counts
    ELSE LET r == CHOOSE x \in rows : TRUE
         IN  CountRows(rows \ {r}, Increment(counts, r.group_id))

\* const counts = {}; data?.forEach(...); setMessageCounts(counts)
Counts(rows) == CountRows(rows, <<>>)

\* messageCount={messageCounts[group.id] || 0}
ShownCount(counts, g) == IF g \in DOMAIN counts THEN counts[g] ELSE 0

\* ------------------------------------------------------------ Init

InitStore ==
    /\ issue_groups = (1 :> GroupRow(<<"a">>, summary["m1"], "bug", "open", NoThread)) @@
                      (2 :> GroupRow(<<"b">>, summary["m3"], "feature", "open", NoThread))
    /\ message_groups = {Row("m1", 1, SelfSimilarity), Row("m2", 1, 72),
                         Row("m3", 2, SelfSimilarity)}
    /\ nextId = 3
    /\ opens = 0
    /\ selectedGroup = [c \in Clients |-> None]
    /\ groupMessages = [c \in Clients |-> {}]
    /\ fetching = [c \in Clients |-> None]
    /\ availableGroups = [c \in Clients |-> {}]
    /\ showMergeModal = [c \in Clients |-> FALSE]
    /\ pc = [c \in Clients |-> "idle"]
    /\ h = [c \in Clients |-> NoHandler]
    /\ pre = [c \in Clients |-> NoSnapshot]
    /\ rejected = [c \in Clients |-> FALSE]
    /\ sawPartialMerge = FALSE
    /\ movedAcross = FALSE
    /\ selectedFields = [c \in Clients |-> NoFields]

\* The dashboards have rendered, their effects have not run yet.
Init == InitStore /\ dash = [c \in Clients |-> NoDash]

\* The session that makes the corrections, and the sessions that watch.
Writers == {"A"}

Watchers == Clients \ Writers

\* useIssueGroups once the fetchIssueGroups() of its effect has returned:
\* setIssueGroups(data), setMessageCounts(counts) of the store as read
Loaded(groups, rows) ==
    [Ended(Mounted) EXCEPT !.fetches = {}, !.issueGroups = groups,
                           !.messageCounts = Counts(rows)]

\* The effect of useIssueGroups has run in the dashboards that watch, and
\* its first fetch is in flight or has returned; the channel of the others
\* has not joined yet.
InitDash ==
    /\ InitStore
    /\ dash \in [Clients -> {NoDash, Mounted, Loaded(issue_groups, message_groups)}]
    /\ \A c \in Clients : dash[c] = NoDash <=> c \notin Watchers

\* ------------------------------------------------------------ the modal

\* Dashboard.openGroupDetails: setSelectedGroup(group); fetchGroupMessages(group.id).
\* The card clicked is one of a stored group; a client has one fetch in
\* flight at a time and starts nothing while one of its handlers runs.
OpenGroupDetails(c, g) ==
    /\ pc[c] = "idle"
    /\ selectedGroup[c] = None
    /\ fetching[c] = None
    /\ g \in Groups
    /\ opens < MaxOpens
    /\ opens' = opens + 1
    /\ selectedGroup' = [selectedGroup EXCEPT ![c] = g]
    /\ fetching' = [fetching EXCEPT ![c] = g]
    /\ UNCHANGED <<storeVars, groupMessages, availableGroups, showMergeModal,
                   pc, h, pre, rejected, sawPartialMerge, movedAcross, dash>>
    /\ selectedFields' = [selectedFields EXCEPT ![c] = FieldsOf(issue_groups[g])]

\* A merge of client c is under way and, of the messages its source group
\* held when it started, some are in the target and some are not.
PartialMerge(c) ==
    /\ pc[c] \in {"merge_loop", "merge_insert"}
    /\ LET source == MembersIn(pre[c].rows, h[c].group) \ MembersIn(pre[c].rows, h[c].target)
           moved  == source \cap Members(h[c].target)
       IN  moved # {} /\ source \ moved # {}

\* useGroupMessages.fetchGroupMessages, the response of the select:
\* on error the list is left as it was; loadingMessages goes back to false.
FetchGroupMessages(c, ok) ==
    /\ fetching[c] # None
    /\ groupMessages' = [groupMessages EXCEPT ![c] =
                            IF ok THEN Members(fetching[c]) ELSE @]
    /\ fetching' = [fetching EXCEPT ![c] = None]
    /\ sawPartialMerge' =
          (sawPartialMerge \/
           (ok /\ \E d \in Clients \ {c} :
                     PartialMerge(d) /\ fetching[c] \in {h[d].group, h[d].target}))
    /\ UNCHANGED <<storeVars, opens, selectedGroup, availableGroups, showMergeModal,
                   pc, h, pre, rejected, movedAcross, selectedFields, dash>>

\* Dashboard.closeModal: setSelectedGroup(null); clearMessages().  The modal
\* component unmounts, which drops availableGroups and showMergeModal.
CloseModal(c) ==
    /\ pc[c] = "idle"
    /\ selectedGroup[c] # None
    /\ selectedGroup' = [selectedGroup EXCEPT ![c] = None]
    /\ groupMessages' = [groupMessages EXCEPT ![c] = {}]
    /\ availableGroups' = [availableGroups EXCEPT ![c] = {}]
    /\ showMergeModal' = [showMergeModal EXCEPT ![c] = FALSE]
    /\ UNCHANGED <<storeVars, opens, fetching, pc, h, pre, rejected,
                   sawPartialMerge, movedAcross, dash>>
    /\ selectedFields' = [selectedFields EXCEPT ![c] = NoFields]

\* The handler of client c has returned: forget what it captured.
Finish(c) ==
    /\ pc' = [pc EXCEPT ![c] = "idle"]
    /\ h' = [h EXCEPT ![c] = NoHandler]
    /\ pre' = [pre EXCEPT ![c] = NoSnapshot]
    /\ rejected' = [rejected EXCEPT ![c] = FALSE]

\* ------------------------------------------------------------ split

\* a new group that does not take its category from the message
NewGroupCategoryFixed(m) == "support"

\* category: message.category
NewGroupCategory(m) == category[m]

\* an insert that repeats the title as the summary
SplitGroupRowTitleAsSummary(m) ==
    GroupRow(SplitTitle(m), SplitTitle(m), NewGroupCategory(m), "open", NoThread)

\* { title, summary: message.summary, category: message.category, status: 'open' }
SplitGroupRow(m) == GroupRow(SplitTitle(m), summary[m], NewGroupCategory(m), "open", NoThread)

\* handleSplitMessage up to the first await: the Split button is rendered
\* per listed message when the list is loaded and has more than one entry;
\* the handler inserts the new group and throws if that insert fails.
SplitInsertGroup(c, m, ok) ==
    /\ pc[c] = "idle"
    /\ selectedGroup[c] # None
    /\ fetching[c] = None
    /\ Cardinality(groupMessages[c]) > 1
    /\ m \in groupMessages[c]
    /\ nextId <= MaxGroups
    /\ pre' = [pre EXCEPT ![c] = Snapshot]
    /\ LET accepted == ok /\ NewGroupCategory(m) \in GroupCategories
       IN  /\ rejected' = [rejected EXCEPT ![c] = ~accepted]
           /\ IF accepted
              THEN /\ issue_groups' = AddGroup(issue_groups, nextId, SplitGroupRow(m))
                   /\ nextId' = nextId + 1
                   /\ h' = [h EXCEPT ![c] = [NoHandler EXCEPT !.group = selectedGroup[c],
                                                             !.msg = m, !.new = nextId]]
                   /\ pc' = [pc EXCEPT ![c] = "split_delete"]
              ELSE /\ UNCHANGED <<issue_groups, nextId>>
                   /\ h' = [h EXCEPT ![c] = [NoHandler EXCEPT !.group = selectedGroup[c],
                                                             !.msg = m]]
                   /\ pc' = [pc EXCEPT ![c] = "split_alert"]
    /\ UNCHANGED <<message_groups, modalVars, sawPartialMerge, movedAcross>>
    /\ dash' = Published

\* "Remove from current group": the result of the delete is not inspected.
SplitDeleteMembership(c, ok) ==
    /\ pc[c] = "split_delete"
    /\ message_groups' = IF ok THEN DeleteMembership(message_groups, h[c].msg, h[c].group)
                               ELSE message_groups
    /\ rejected' = [rejected EXCEPT ![c] = @ \/ ~ok]
    /\ pc' = [pc EXCEPT ![c] = "split_insert"]
    /\ UNCHANGED <<issue_groups, nextId, modalVars, h, pre, sawPartialMerge, movedAcross>>
    /\ dash' = Published

\* "Add to new group": the result of the insert is not inspected either.
SplitInsertMembership(c, ok) ==
    /\ pc[c] = "split_insert"
    /\ LET accepted == ok /\ MembershipInsertAllowed(message_groups, Groups,
                                                     h[c].msg, h[c].new)
       IN  /\ message_groups' =
                 IF accepted
                 THEN message_groups \cup {Row(h[c].msg, h[c].new, SelfSimilarity)}
                 ELSE message_groups
           /\ rejected' = [rejected EXCEPT ![c] = @ \/ ~accepted]
    /\ pc' = [pc EXCEPT ![c] = "split_close"]
    /\ UNCHANGED <<issue_groups, nextId, modalVars, h, pre, sawPartialMerge, movedAcross>>
    /\ dash' = Published

\* onClose() after the last await of handleSplitMessage
SplitClose(c) ==
    /\ pc[c] = "split_close"
    /\ Finish(c)
    /\ selectedGroup' = [selectedGroup EXCEPT ![c] = None]
    /\ groupMessages' = [groupMessages EXCEPT ![c] = {}]
    /\ availableGroups' = [availableGroups EXCEPT ![c] = {}]
    /\ showMergeModal' = [showMergeModal EXCEPT ![c] = FALSE]
    /\ UNCHANGED <<storeVars, opens, fetching, sawPartialMerge, movedAcross, dash>>
    /\ selectedFields' = [selectedFields EXCEPT ![c] = NoFields]

\* catch: alert('Failed to split message. Please try again.'), dismissed
SplitAlert(c) ==
    /\ pc[c] = "split_alert"
    /\ Finish(c)
    /\ UNCHANGED <<storeVars, modalVars, sawPartialMerge, movedAcross, dash>>

\* ------------------------------------------------------------ merge

\* a select without .neq('id', selectedGroup.id)
MergeCandidatesAny(groups, sel) == {g \in DOMAIN groups : groups[g].status = "open"}

\* .neq('id', selectedGroup.id).eq('status', 'open')  (the limit of 20 rows
\* is never reached with MaxGroups groups)
MergeCandidates(groups, sel) ==
    {g \in DOMAIN groups : g # sel /\ groups[g].status = "open"}

\* handleOpenMergeModal
HandleOpenMergeModal(c) ==
    /\ pc[c] = "idle"
    /\ selectedGroup[c] # None
    /\ availableGroups' = [availableGroups EXCEPT ![c] =
                              MergeCandidates(issue_groups, selectedGroup[c])]
    /\ showMergeModal' = [showMergeModal EXCEPT ![c] = TRUE]
    /\ UNCHANGED <<storeVars, opens, selectedGroup, groupMessages, fetching,
                   pc, h, pre, rejected, sawPartialMerge, movedAcross, selectedFields, dash>>

\* a lookup that finds any stored group
TargetStored(c, t) == t \in Groups

\* availableGroups.find(g => g.id === targetGroupId); if (!targetGroup) return
TargetFound(c, t) == t \in availableGroups[c]

\* handleMergeIntoGroup up to the loop: the target is looked up in
\* availableGroups, the loop runs over the groupMessages of this render.
StartMerge(c, t) ==
    /\ pc[c] = "idle"
    /\ showMergeModal[c]
    /\ TargetFound(c, t)
    /\ h' = [h EXCEPT ![c] = [NoHandler EXCEPT !.group = selectedGroup[c],
                                              !.target = t,
                                              !.list = groupMessages[c],
                                              !.todo = groupMessages[c]]]
    /\ pre' = [pre EXCEPT ![c] = Snapshot]
    /\ rejected' = [rejected EXCEPT ![c] = FALSE]
    /\ pc' = [pc EXCEPT ![c] = "merge_loop"]
    /\ UNCHANGED <<storeVars, modalVars, sawPartialMerge, movedAcross, dash>>

\* loop body, first await: delete (msg, selectedGroup); result not inspected
MergeDeleteMembership(c, m, ok) ==
    /\ pc[c] = "merge_loop"
    /\ m \in h[c].todo
    /\ message_groups' = IF ok THEN DeleteMembership(message_groups, m, h[c].group)
                               ELSE message_groups
    /\ rejected' = [rejected EXCEPT ![c] = @ \/ ~ok]
    /\ h' = [h EXCEPT ![c].cur = m]
    /\ pc' = [pc EXCEPT ![c] = "merge_insert"]
    /\ UNCHANGED <<issue_groups, nextId, modalVars, pre, sawPartialMerge, movedAcross>>
    /\ dash' = Published

\* similarity_score: msg.similarity_score || 1.0 -- the rows loaded by
\* fetchGroupMessages are messages(*), which carry no similarity_score
MergeScore(m) == SelfSimilarity

\* loop body, second await: insert (msg, target); result not inspected
MergeInsertMembership(c, ok) ==
    /\ pc[c] = "merge_insert"
    /\ LET m == h[c].cur
           accepted == ok /\ MembershipInsertAllowed(message_groups, Groups, m, h[c].target)
       IN  /\ message_groups' =
                 IF accepted
                 THEN message_groups \cup {Row(m, h[c].target, MergeScore(m))}
                 ELSE message_groups
           /\ rejected' = [rejected EXCEPT ![c] = @ \/ ~accepted]
           /\ movedAcross' =
                 (movedAcross \/
                  (accepted /\ category[m] # issue_groups[h[c].target].category))
           /\ h' = [h EXCEPT ![c].todo = @ \ {m}]
    /\ pc' = [pc EXCEPT ![c] = "merge_loop"]
    /\ UNCHANGED <<issue_groups, nextId, modalVars, pre, sawPartialMerge>>
    /\ dash' = Published

\* "Delete the current group" after the loop; result not inspected
MergeDeleteGroup(c, ok) ==
    /\ pc[c] = "merge_loop"
    /\ h[c].todo = {}
    /\ IF ok /\ h[c].group \in Groups
       THEN /\ issue_groups' = RemoveGroup(issue_groups, h[c].group)
            /\ message_groups' = CascadeDelete(message_groups, h[c].group)
       ELSE UNCHANGED <<issue_groups, message_groups>>
    /\ rejected' = [rejected EXCEPT ![c] = @ \/ ~ok]
    /\ pc' = [pc EXCEPT ![c] = "merge_close"]
    /\ UNCHANGED <<nextId, modalVars, h, pre, sawPartialMerge, movedAcross>>
    /\ dash' = Published

\* setShowMergeModal(false); onClose(); finally setIsMerging(false)
MergeClose(c) ==
    /\ pc[c] = "merge_close"
    /\ Finish(c)
    /\ selectedGroup' = [selectedGroup EXCEPT ![c] = None]
    /\ groupMessages' = [groupMessages EXCEPT ![c] = {}]
    /\ availableGroups' = [availableGroups EXCEPT ![c] = {}]
    /\ showMergeModal' = [showMergeModal EXCEPT ![c] = FALSE]
    /\ UNCHANGED <<storeVars, opens, fetching, sawPartialMerge, movedAcross, dash>>
    /\ selectedFields' = [selectedFields EXCEPT ![c] = NoFields]

\* ------------------------------------------------------------ the group list

\* The channel calls the callback of client c for event e; the callback
\* calls fetchIssueGroups().  The transport may deliver the event again
\* later (last = FALSE).
Deliver(c, e, last) ==
    /\ e \in dash[c].pending
    /\ Cardinality(dash[c].fetches \cup {NewFetch}) <= MaxFetches
    /\ dash' = [dash EXCEPT ![c] = [Started(@) EXCEPT
                                        !.pending = IF last THEN @ \ {e} ELSE @,
                                        !.fetches = @ \cup {NewFetch}]]
    /\ UNCHANGED <<storeVars, modalVars, pc, h, pre, rejected, sawPartialMerge, movedAcross>>

\* the store runs select * from issue_groups for fetch f of client c
ReadGroups(c, f, ok) ==
    /\ f \in dash[c].fetches
    /\ f.phase = "groups_sent"
    /\ dash' = [dash EXCEPT ![c].fetches =
                    (@ \ {f}) \cup {[f EXCEPT !.phase = "groups_read", !.ok = ok,
                                             !.groups = IF ok THEN issue_groups ELSE <<>>]}]
    /\ UNCHANGED <<storeVars, modalVars, pc, h, pre, rejected, sawPartialMerge, movedAcross>>

\* fetchIssueGroups after its await: on error setError and return, else
\* setIssueGroups(data) and call fetchMessageCounts
GroupsResponse(c, f) ==
    /\ f \in dash[c].fetches
    /\ f.phase = "groups_read"
    /\ dash' = IF f.ok
               THEN [dash EXCEPT ![c].issueGroups = f.groups,
                                 ![c].fetches = (@ \ {f}) \cup
                                     {[f EXCEPT !.phase = "counts_sent", !.groups = <<>>]}]
               ELSE [dash EXCEPT ![c] = [Failed(@) EXCEPT !.fetches = @ \ {f}]]
    /\ UNCHANGED <<storeVars, modalVars, pc, h, pre, rejected, sawPartialMerge, movedAcross>>

\* the store runs select group_id from message_groups for fetch f
ReadCounts(c, f, ok) ==
    /\ f \in dash[c].fetches
    /\ f.phase = "counts_sent"
    /\ dash' = [dash EXCEPT ![c].fetches =
                    (@ \ {f}) \cup {[f EXCEPT !.phase = "counts_read", !.ok = ok,
                                             !.counts = IF ok THEN Counts(message_groups)
                                                             ELSE <<>>]}]
    /\ UNCHANGED <<storeVars, modalVars, pc, h, pre, rejected, sawPartialMerge, movedAcross>>

\* fetchMessageCounts after its await: setMessageCounts(counts) unless the
\* select failed; fetchIssueGroups returns
CountsResponse(c, f) ==
    /\ f \in dash[c].fetches
    /\ f.phase = "counts_read"
    /\ dash' = IF f.ok
               THEN [dash EXCEPT ![c] = [Ended(@) EXCEPT !.messageCounts = f.counts,
                                                         !.fetches = @ \ {f}]]
               ELSE [dash EXCEPT ![c] = [Ended(@) EXCEPT !.fetches = @ \ {f}]]
    /\ UNCHANGED <<storeVars, modalVars, pc, h, pre, rejected, sawPartialMerge, movedAcross>>

\* ------------------------------------------------------------ grouping engine

\* title and summary derived from the message's generated summary
SummaryTitle(m) == <<"summary", m>>

\* Thread Index: the groups registered under the thread id of m
ThreadMatch(m) ==
    {g \in Groups : thread[m] # NoThread /\ issue_groups[g].thread = thread[m]}

\* an embedding store that never finds a neighbour
CandidatesNone(m) == {}

\* an embedding store that is not restricted to the category of m
CandidatesAnyCategory(m) == {n \in Messages \ {m} : GroupsOf(n) # {}}

\* nearest(v, c, k, w): the grouped messages of the category of m (all of
\* them fall in the age window, and there are fewer than k)
Candidates(m) ==
    {n \in Messages \ {m} : GroupsOf(n) # {} /\ category[n] = category[m]}

\* first element of the sequence nearest returns: highest similarity, ties
\* broken by the more recent timestamp
Best(m) ==
    CHOOSE n \in Candidates(m) :
        \A k \in Candidates(m) :
            \/ Similarity(m, n) > Similarity(m, k)
            \/ Similarity(m, n) = Similarity(m, k) /\ Recency[n] >= Recency[k]

\* rule 2 asked before rule 1
DecideSimilarityFirst(m) ==
    IF Candidates(m) # {} /\ Similarity(m, Best(m)) >= Threshold
    THEN [rule |-> "neighbour", group |-> CHOOSE g \in GroupsOf(Best(m)) : TRUE,
          score |-> Similarity(m, Best(m))]
    ELSE IF ThreadMatch(m) # {}
    THEN [rule |-> "thread", group |-> CHOOSE g \in ThreadMatch(m) : TRUE,
          score |-> SelfSimilarity]
    ELSE [rule |-> "new", group |-> nextId, score |-> SelfSimilarity]

\* steps 1-3 in strict priority order, first rule that fires wins
Decide(m) ==
    IF ThreadMatch(m) # {}
    THEN [rule |-> "thread", group |-> CHOOSE g \in ThreadMatch(m) : TRUE,
          score |-> SelfSimilarity]
    ELSE IF Candidates(m) # {} /\ Similarity(m, Best(m)) >= Threshold
    THEN [rule |-> "neighbour", group |-> CHOOSE g \in GroupsOf(Best(m)) : TRUE,
          score |-> Similarity(m, Best(m))]
    ELSE [rule |-> "new", group |-> nextId, score |-> SelfSimilarity]

\* The assignment of one stored, not yet grouped message, applied as a
\* single atomic unit: decide, allocate the group if rule 3 fired (step 4
\* registers the thread with it), write the membership.
Assign(m) ==
    /\ GroupsOf(m) = {}
    /\ LET d == Decide(m)
       IN  /\ d.rule = "new" => nextId <= MaxGroups
           /\ issue_groups' =
                 IF d.rule = "new"
                 THEN AddGroup(issue_groups, nextId,
                               GroupRow(SummaryTitle(m), summary[m], category[m], "open", thread[m]))
                 ELSE issue_groups
           /\ nextId' = IF d.rule = "new" THEN nextId + 1 ELSE nextId
           /\ message_groups' = message_groups \cup {Row(m, d.group, d.score)}
    /\ UNCHANGED <<modalVars, pc, h, pre, rejected, sawPartialMerge, movedAcross>>
    /\ dash' = Published

\* ------------------------------------------------------------ edits

\* What the user may have typed into the title field.
TitleInputs == {<<"x">>, <<" ", "x", " ">>, <<" ">>}

\* The options picked in the two selects.
PriorityInputs == {"high"}

WorkflowInputs == {"resolved"}

RECURSIVE TrimStart(_)
TrimStart(t) == IF t # <<>> /\ Head(t) = " " THEN TrimStart(Tail(t)) ELSE t

RECURSIVE TrimEnd(_)
TrimEnd(t) ==
    IF t # <<>> /\ t[Len(t)] = " " THEN TrimEnd(SubSeq(t, 1, Len(t) - 1)) ELSE t

\* String.prototype.trim
Trim(t) == TrimEnd(TrimStart(t))

RECURSIVE Updates(_, _)
Updates(groups, ids) ==
    IF ids = {} THEN 0
    ELSE LET g == CHOOSE x \in ids : TRUE
         IN  groups[g].updated_at + Updates(groups, ids \ {g})

\* The modal of client c is open, none of its handlers is running, and the
\* run has updates left within the bound.
CanEdit(c) ==
    /\ pc[c] = "idle"
    /\ selectedGroup[c] # None
    /\ Updates(issue_groups, Groups) < MaxUpdates

\* a test that does not trim the edited text
ReturnsEarlyUntrimmed(t, shown) == t = <<>> \/ t = shown

\* if (editedTitle.trim() === '' || editedTitle === selectedGroup.title) ... return
ReturnsEarly(t, shown) == Trim(t) = <<>> \/ t = shown

\* handleSaveTitle with editedTitle = t: the early return leaves the store
\* and the selectedGroup object alone (it resets the input field only)
HandleSaveTitle(c, t, ok) ==
    /\ CanEdit(c)
    /\ LET write == ok /\ ~ReturnsEarly(t, selectedFields[c].title)
       IN  /\ issue_groups' = IF write
                              THEN UpdateGroup(issue_groups, selectedGroup[c], "title", Trim(t))
                              ELSE issue_groups
           /\ selectedFields' = IF write THEN [selectedFields EXCEPT ![c].title = Trim(t)]
                                         ELSE selectedFields
    /\ UNCHANGED <<message_groups, nextId, opens, selectedGroup, groupMessages, fetching,
                   availableGroups, showMergeModal, pc, h, pre, rejected,
                   sawPartialMerge, movedAcross>>
    /\ dash' = Published

\* handleUpdatePriority(newPriority)
HandleUpdatePriority(c, p, ok) ==
    /\ CanEdit(c)
    /\ LET accepted == ok /\ UpdateAllowed(issue_groups, selectedGroup[c], "priority", p)
       IN  /\ issue_groups' = IF accepted
                              THEN UpdateGroup(issue_groups, selectedGroup[c], "priority", p)
                              ELSE issue_groups
           /\ selectedFields' = IF accepted THEN [selectedFields EXCEPT ![c].priority = p]
                                            ELSE selectedFields
    /\ UNCHANGED <<message_groups, nextId, opens, selectedGroup, groupMessages, fetching,
                   availableGroups, showMergeModal, pc, h, pre, rejected,
                   sawPartialMerge, movedAcross>>
    /\ dash' = Published

\* handleUpdateWorkflowStatus(newStatus)
HandleUpdateWorkflowStatus(c, w, ok) ==
    /\ CanEdit(c)
    /\ LET accepted == ok /\ UpdateAllowed(issue_groups, selectedGroup[c],
                                           "workflow_status", w)
       IN  /\ issue_groups' = IF accepted
                              THEN UpdateGroup(issue_groups, selectedGroup[c],
                                               "workflow_status", w)
                              ELSE issue_groups
           /\ selectedFields' = IF accepted
                                THEN [selectedFields EXCEPT ![c].workflow_status = w]
                                ELSE selectedFields
    /\ UNCHANGED <<message_groups, nextId, opens, selectedGroup, groupMessages, fetching,
                   availableGroups, showMergeModal, pc, h, pre, rejected,
                   sawPartialMerge, movedAcross>>
    /\ dash' = Published

\* currentStatus === 'open' ? 'resolved' : 'open'
ToggledStatus(currentStatus) == IF currentStatus = "open" THEN "resolved" ELSE "open"

\* setIssueGroups(prev => prev.map(group => group.id === groupId ? ... ))
WithStatus(list, g, status) ==
    [x \in DOMAIN list |-> IF x = g THEN [list[x] EXCEPT !.status = status] ELSE list[x]]

\* Dashboard.handleToggleStatus(selectedGroup.id, selectedGroup.status):
\* toggleGroupStatus catches the error of its update, so the selectedGroup
\* object gets the new status whether the update was accepted or not.
HandleToggleStatus(c, ok) ==
    /\ CanEdit(c)
    /\ LET g == selectedGroup[c]
           newStatus == ToggledStatus(selectedFields[c].status)
           accepted == ok /\ UpdateAllowed(issue_groups, g, "status", newStatus)
       IN  /\ issue_groups' = IF accepted
                              THEN UpdateGroup(issue_groups, g, "status", newStatus)
                              ELSE issue_groups
           /\ selectedFields' = [selectedFields EXCEPT ![c].status = newStatus]
           /\ dash' = IF accepted
                      THEN [Published EXCEPT ![c].issueGroups = WithStatus(@, g, newStatus)]
                      ELSE Published
    /\ UNCHANGED <<message_groups, nextId, opens, selectedGroup, groupMessages, fetching,
                   availableGroups, showMergeModal, pc, h, pre, rejected,
                   sawPartialMerge, movedAcross>>

\* ------------------------------------------------------------ specifications

\* Any interleaving of the clients' calls; the store may reject any write.
Next ==
    \/ \E c \in Clients, g \in GroupIds : OpenGroupDetails(c, g)
    \/ \E c \in Clients, ok \in BOOLEAN : FetchGroupMessages(c, ok)
    \/ \E c \in Clients : CloseModal(c)
    \/ \E c \in Clients, m \in Messages, ok \in BOOLEAN : SplitInsertGroup(c, m, ok)
    \/ \E c \in Clients, ok \in BOOLEAN : SplitDeleteMembership(c, ok)
    \/ \E c \in Clients, ok \in BOOLEAN : SplitInsertMembership(c, ok)
    \/ \E c \in Clients : SplitClose(c)
    \/ \E c \in Clients : SplitAlert(c)
    \/ \E c \in Clients : HandleOpenMergeModal(c)
    \/ \E c \in Clients, t \in GroupIds : StartMerge(c, t)
    \/ \E c \in Clients, m \in Messages, ok \in BOOLEAN : MergeDeleteMembership(c, m, ok)
    \/ \E c \in Clients, ok \in BOOLEAN : MergeInsertMembership(c, ok)
    \/ \E c \in Clients, ok \in BOOLEAN : MergeDeleteGroup(c, ok)
    \/ \E c \in Clients : MergeClose(c)

Spec == Init /\ [][Next]_vars

\* No handler of another client is between its first and its last step.
Alone(c) == \A d \in Clients \ {c} : pc[d] = "idle"

\* handleSplitMessage started while no other handler is running
SerialSplitInsertGroup(c, m, ok) == Alone(c) /\ SplitInsertGroup(c, m, ok)

\* handleMergeIntoGroup started while no other handler is running
SerialStartMerge(c, t) == Alone(c) /\ StartMerge(c, t)

\* One handler at a time: a handler that has started runs to its end before
\* any other client's handler starts (the lists the clients hold may still
\* be out of date); the store may reject any write.
NextSerial ==
    \/ \E c \in Clients, g \in GroupIds : OpenGroupDetails(c, g)
    \/ \E c \in Clients, ok \in BOOLEAN : FetchGroupMessages(c, ok)
    \/ \E c \in Clients : CloseModal(c)
    \/ \E c \in Clients, m \in Messages, ok \in BOOLEAN : SerialSplitInsertGroup(c, m, ok)
    \/ \E c \in Clients, ok \in BOOLEAN : SplitDeleteMembership(c, ok)
    \/ \E c \in Clients, ok \in BOOLEAN : SplitInsertMembership(c, ok)
    \/ \E c \in Clients : SplitClose(c)
    \/ \E c \in Clients : SplitAlert(c)
    \/ \E c \in Clients : HandleOpenMergeModal(c)
    \/ \E c \in Clients, t \in GroupIds : SerialStartMerge(c, t)
    \/ \E c \in Clients, m \in Messages, ok \in BOOLEAN : MergeDeleteMembership(c, m, ok)
    \/ \E c \in Clients, ok \in BOOLEAN : MergeInsertMembership(c, ok)
    \/ \E c \in Clients, ok \in BOOLEAN : MergeDeleteGroup(c, ok)
    \/ \E c \in Clients : MergeClose(c)

SpecSerial == Init /\ [][NextSerial]_vars

\* The store accepts every write that its constraints allow, and every
\* select succeeds; the clients' calls interleave freely.
NextReliable ==
    \/ \E c \in Clients, g \in GroupIds : OpenGroupDetails(c, g)
    \/ \E c \in Clients : FetchGroupMessages(c, TRUE)
    \/ \E c \in Clients : CloseModal(c)
    \/ \E c \in Clients, m \in Messages : SplitInsertGroup(c, m, TRUE)
    \/ \E c \in Clients : SplitDeleteMembership(c, TRUE)
    \/ \E c \in Clients : SplitInsertMembership(c, TRUE)
    \/ \E c \in Clients : SplitClose(c)
    \/ \E c \in Clients : HandleOpenMergeModal(c)
    \/ \E c \in Clients, t \in GroupIds : StartMerge(c, t)
    \/ \E c \in Clients, m \in Messages : MergeDeleteMembership(c, m, TRUE)
    \/ \E c \in Clients : MergeInsertMembership(c, TRUE)
    \/ \E c \in Clients : MergeDeleteGroup(c, TRUE)
    \/ \E c \in Clients : MergeClose(c)

SpecReliable == Init /\ [][NextReliable]_vars

\* ------------------------------------------------------------ whole handlers

\* handleSplitMessage run from its first to its last line on store s with
\* nothing in between: split message m out of group g, the store handing
\* out n as the id of the new group.
SplitRun(s, g, m, n) ==
    LET groups1 == AddGroup(s.groups, n, SplitGroupRow(m))
        rows1   == DeleteMembership(s.rows, m, g)
        rows2   == IF MembershipInsertAllowed(rows1, DOMAIN groups1, m, n)
                   THEN rows1 \cup {Row(m, n, SelfSimilarity)}
                   ELSE rows1
    IN  [groups |-> groups1, rows |-> rows2]

\* for (const msg of groupMessages) { delete (msg, g); insert (msg, t) }
RECURSIVE MergeLoop(_, _, _, _, _)
MergeLoop(rows, groups, g, t, todo) ==
    IF todo = {} THEN rows
    ELSE LET m     == CHOOSE x \in todo : TRUE
             rows1 == DeleteMembership(rows, m, g)
             rows2 == IF MembershipInsertAllowed(rows1, groups, m, t)
                      THEN rows1 \cup {Row(m, t, MergeScore(m))}
                      ELSE rows1
         IN  MergeLoop(rows2, groups, g, t, todo \ {m})

\* handleMergeIntoGroup run from its first to its last line on store s with
\* nothing in between: merge group g into t, looping over list.
MergeRun(s, g, t, list) ==
    LET rows1 == MergeLoop(s.rows, DOMAIN s.groups, g, t, list)
    IN  IF g \in DOMAIN s.groups
        THEN [groups |-> RemoveGroup(s.groups, g), rows |-> CascadeDelete(rows1, g)]
        ELSE [groups |-> s.groups, rows |-> rows1]

\* One session corrects and renames groups, one handler at a time, and the
\* channel calls the callbacks of the dashboards that watch; the store
\* accepts every write its constraints allow and every select succeeds.
NextNotify ==
    \/ \E c \in Writers, g \in GroupIds : OpenGroupDetails(c, g)
    \/ \E c \in Writers : FetchGroupMessages(c, TRUE)
    \/ \E c \in Writers : CloseModal(c)
    \/ \E c \in Writers, m \in Messages : SplitInsertGroup(c, m, TRUE)
    \/ \E c \in Writers : SplitDeleteMembership(c, TRUE)
    \/ \E c \in Writers : SplitInsertMembership(c, TRUE)
    \/ \E c \in Writers : SplitClose(c)
    \/ \E c \in Writers : HandleOpenMergeModal(c)
    \/ \E c \in Writers, t \in GroupIds : StartMerge(c, t)
    \/ \E c \in Writers, m \in Messages : MergeDeleteMembership(c, m, TRUE)
    \/ \E c \in Writers : MergeInsertMembership(c, TRUE)
    \/ \E c \in Writers : MergeDeleteGroup(c, TRUE)
    \/ \E c \in Writers : MergeClose(c)
    \/ \E c \in Writers : HandleSaveTitle(c, <<"x">>, TRUE)
    \/ \E c \in Watchers : \E e \in dash[c].pending, last \in BOOLEAN : Deliver(c, e, last)

SpecNotify == InitDash /\ [][NextNotify]_vars

\* One session splits and renames groups while the dashboards that watch
\* re-read the group list on every event; the store accepts every write
\* its constraints allow and every select succeeds.
NextDash ==
    \/ \E c \in Writers, g \in GroupIds : OpenGroupDetails(c, g)
    \/ \E c \in Writers : FetchGroupMessages(c, TRUE)
    \/ \E c \in Writers : CloseModal(c)
    \/ \E c \in Writers, m \in Messages : SplitInsertGroup(c, m, TRUE)
    \/ \E c \in Writers : SplitDeleteMembership(c, TRUE)
    \/ \E c \in Writers : SplitInsertMembership(c, TRUE)
    \/ \E c \in Writers : SplitClose(c)
    \/ \E c \in Writers : HandleSaveTitle(c, <<"x">>, TRUE)
    \/ \E c \in Watchers : \E e \in dash[c].pending, last \in BOOLEAN : Deliver(c, e, last)
    \/ \E c \in Watchers : \E f \in dash[c].fetches : ReadGroups(c, f, TRUE)
    \/ \E c \in Watchers : \E f \in dash[c].fetches : GroupsResponse(c, f)
    \/ \E c \in Watchers : \E f \in dash[c].fetches : ReadCounts(c, f, TRUE)
    \/ \E c \in Watchers : \E f \in dash[c].fetches : CountsResponse(c, f)

SpecDash == InitDash /\ [][NextDash]_vars

\* One session splits groups while the dashboards that watch re-read the
\* list on every event; either select of a fetch may fail.
NextFetch ==
    \/ \E c \in Writers, g \in GroupIds : OpenGroupDetails(c, g)
    \/ \E c \in Writers : FetchGroupMessages(c, TRUE)
    \/ \E c \in Writers : CloseModal(c)
    \/ \E c \in Writers, m \in Messages : SplitInsertGroup(c, m, TRUE)
    \/ \E c \in Writers : SplitDeleteMembership(c, TRUE)
    \/ \E c \in Writers : SplitInsertMembership(c, TRUE)
    \/ \E c \in Writers : SplitClose(c)
    \/ \E c \in Watchers : \E e \in dash[c].pending : Deliver(c, e, TRUE)
    \/ \E c \in Watchers : \E f \in dash[c].fetches, ok \in BOOLEAN : ReadGroups(c, f, ok)
    \/ \E c \in Watchers : \E f \in dash[c].fetches : GroupsResponse(c, f)
    \/ \E c \in Watchers : \E f \in dash[c].fetches, ok \in BOOLEAN : ReadCounts(c, f, ok)
    \/ \E c \in Watchers : \E f \in dash[c].fetches : CountsResponse(c, f)

SpecFetch == InitDash /\ [][NextFetch]_vars

\* The grouping engine assigns the waiting messages, one at a time, in any
\* order.
NextGrouping == \E m \in Messages : Assign(m)

SpecGrouping == Init /\ [][NextGrouping]_vars

\* The modal and its field edits; the store may reject any write.
NextEdit ==
    \/ \E c \in Clients, g \in GroupIds : OpenGroupDetails(c, g)
    \/ \E c \in Clients : FetchGroupMessages(c, TRUE)
    \/ \E c \in Clients : CloseModal(c)
    \/ \E c \in Clients, t \in TitleInputs, ok \in BOOLEAN : HandleSaveTitle(c, t, ok)
    \/ \E c \in Clients, p \in PriorityInputs, ok \in BOOLEAN : HandleUpdatePriority(c, p, ok)
    \/ \E c \in Clients, w \in WorkflowInputs, ok \in BOOLEAN :
            HandleUpdateWorkflowStatus(c, w, ok)
    \/ \E c \in Clients, ok \in BOOLEAN : HandleToggleStatus(c, ok)

SpecEdit == Init /\ [][NextEdit]_vars

\* Every correction the dashboard offers to one session: split, merge and
\* the field edits of the modal; the store accepts every write its
\* constraints allow and every select succeeds.
NextCorrections ==
    \/ \E c \in Writers, g \in GroupIds : OpenGroupDetails(c, g)
    \/ \E c \in Writers : FetchGroupMessages(c, TRUE)
    \/ \E c \in Writers : CloseModal(c)
    \/ \E c \in Writers, m \in Messages : SplitInsertGroup(c, m, TRUE)
    \/ \E c \in Writers : SplitDeleteMembership(c, TRUE)
    \/ \E c \in Writers : SplitInsertMembership(c, TRUE)
    \/ \E c \in Writers : SplitClose(c)
    \/ \E c \in Writers : HandleOpenMergeModal(c)
    \/ \E c \in Writers, t \in GroupIds : StartMerge(c, t)
    \/ \E c \in Writers, m \in Messages : MergeDeleteMembership(c, m, TRUE)
    \/ \E c \in Writers : MergeInsertMembership(c, TRUE)
    \/ \E c \in Writers : MergeDeleteGroup(c, TRUE)
    \/ \E c \in Writers : MergeClose(c)
    \/ \E c \in Writers : HandleSaveTitle(c, <<"x">>, TRUE)
    \/ \E c \in Writers, p \in PriorityInputs : HandleUpdatePriority(c, p, TRUE)
    \/ \E c \in Writers, w \in WorkflowInputs : HandleUpdateWorkflowStatus(c, w, TRUE)
    \/ \E c \in Writers : HandleToggleStatus(c, TRUE)

SpecCorrections == Init /\ [][NextCorrections]_vars

\* ------------------------------------------------------------ the list filters

\* CATEGORIES: the values of the category buttons
CategoryFilters == {"all"} \cup GroupCategories

\* TIME_FILTERS: the values of the time buttons
TimeFilters == {"all", "24h", "7d", "30d"}

\* the length of the window of a time filter, in days:
\* 24 * 60 * 60 * 1000, 7 * 24 * 60 * 60 * 1000, 30 * 24 * 60 * 60 * 1000 ms
Window == [f \in TimeFilters \ {"all"} |->
              CASE f = "24h" -> 1 [] f = "7d" -> 7 [] f = "30d" -> 30]

\* readings of the clock (new Date()), in days
Clock == {31, 32, 38, 61}

\* getTimeFilterDate with the clock reading it takes: no date (null) for
\* 'all' and for an unknown value, else the reading minus the window
getTimeFilterDate(filter, now) ==
    IF filter = "all"
    THEN {}
    ELSE IF filter \in DOMAIN Window THEN {now - Window[filter]} ELSE {}

\* String.prototype.toLowerCase on one character
LowerChar(ch) == CASE ch = "A" -> "a" [] ch = "B" -> "b" [] OTHER -> ch

\* String.prototype.toLowerCase
toLowerCase(s) == [i \in 1..Len(s) |-> LowerChar(s[i])]

\* String.prototype.includes
includes(s, q) == \E i \in 0..(Len(s) - Len(q)) : SubSeq(s, i + 1, i + Len(q)) = q

\* a search that trims the query before it matches
queryTrimmed(searchQuery) == toLowerCase(Trim(searchQuery))

\* const query = searchQuery.toLowerCase()
query(searchQuery) == toLowerCase(searchQuery)

\* first filter: selectedCategory === 'all' || group.category === selectedCategory
CategoryTest(group, selectedCategory) ==
    selectedCategory = "all" \/ group.category = selectedCategory

\* second filter: no date passes, else new Date(group.created_at) >= timeFilterDate
TimeTest(group, selectedTimeFilter, now) ==
    LET timeFilterDate == getTimeFilterDate(selectedTimeFilter, now)
    IN  IF timeFilterDate = {}
        THEN TRUE
        ELSE \A date \in timeFilterDate : group.created_at >= date

\* third filter: a query that trims to nothing passes, else the lower-cased
\* query occurs in the lower-cased title or summary
SearchTest(group, searchQuery) ==
    IF Trim(searchQuery) = <<>>
    THEN TRUE
    ELSE \/ includes(toLowerCase(group.title), query(searchQuery))
         \/ includes(toLowerCase(group.summary), query(searchQuery))

\* filterIssueGroups called when the clock reads now: groups.filter(...)
\* .filter(...).filter(...)
filterIssueGroups(groups, selectedCategory, selectedTimeFilter, searchQuery, now) ==
    LET ByCategory(group) == CategoryTest(group, selectedCategory)
        ByTime(group) == TimeTest(group, selectedTimeFilter, now)
        BySearch(group) == SearchTest(group, searchQuery)
    IN  SelectSeq(SelectSeq(SelectSeq(groups, ByCategory), ByTime), BySearch)

\* const filteredGroups = filterIssueGroups(issueGroups, selectedCategory,
\* selectedTimeFilter, searchQuery), as the last render of d computed it
filteredGroups(d) ==
    filterIssueGroups(d.issueGroups, d.selectedCategory, d.selectedTimeFilter,
                      d.searchQuery, d.now)

\* the fields of a group that filterIssueGroups reads, and its id
Listed(id, title, sum, cat, at) ==
    [id |-> id, title |-> title, summary |-> sum, category |-> cat, created_at |-> at]

\* groups a fetch can return; created_at in days
ListedGroups ==
    {Listed(1, <<"A", "b">>, <<"c">>, "bug", 1),
     Listed(2, <<"c">>, <<"a", " ", "b">>, "feature", 25),
     Listed(3, <<"x">>, <<"B">>, "bug", 31),
     Listed(4, <<"B", " ", "c">>, <<"a", "b">>, "feature", 25)}

\* what a fetch can answer: select * ... order('created_at', { ascending: false }),
\* each group once
Listings ==
    {l \in UNION {[1..n -> ListedGroups] : n \in 0..MaxListed} :
        \A i, j \in 1..Len(l) :
            i < j => l[i] # l[j] /\ l[i].created_at >= l[j].created_at}

\* what the search box can hold
SearchQueries ==
    {<<>>, <<" ">>, <<"a">>, <<"B">>, <<" ", "b">>, <<"A", "b", " ">>, <<"z">>}

\* The dashboard that watches has fetched its list; no filter is set.
InitFilter ==
    /\ InitStore
    /\ \E l \in Listings :
           dash = [c \in Clients |-> IF c \in Watchers THEN Loaded(l, {}) ELSE NoDash]

\* a render of Dashboard of c in state d; the clock does not run backwards
Render(c, d, now) ==
    /\ dash[c].subscribed
    /\ now >= dash[c].now
    /\ dash' = [dash EXCEPT ![c] = [d EXCEPT !.now = now]]
    /\ UNCHANGED <<storeVars, modalVars, pc, h, pre, rejected, sawPartialMerge, movedAcross>>

\* onClick={() => setSelectedCategory(category)}
SetSelectedCategory(c, cat, now) ==
    Render(c, [dash[c] EXCEPT !.selectedCategory = cat], now)

\* setSelectedTimeFilter of the time buttons
SetSelectedTimeFilter(c, filter, now) ==
    Render(c, [dash[c] EXCEPT !.selectedTimeFilter = filter], now)

\* onSearchChange={setSearchQuery}
SetSearchQuery(c, q, now) ==
    Render(c, [dash[c] EXCEPT !.searchQuery = q], now)

\* The filters of one dashboard are set in any order, at any later time.
NextFilter ==
    \/ \E c \in Watchers, cat \in CategoryFilters, now \in Clock :
           SetSelectedCategory(c, cat, now)
    \/ \E c \in Watchers, filter \in TimeFilters, now \in Clock :
           SetSelectedTimeFilter(c, filter, now)
    \/ \E c \in Watchers, q \in SearchQueries, now \in Clock : SetSearchQuery(c, q, now)

SpecFilter == InitFilter /\ [][NextFilter]_vars

TypeOK ==
    /\ Groups \subseteq GroupIds
    /\ \A g \in Groups : /\ issue_groups[g].category \in GroupCategories
                         /\ issue_groups[g].status \in GroupStatuses
                         /\ issue_groups[g].priority \in Priorities
                         /\ issue_groups[g].workflow_status \in WorkflowStatuses
    /\ \A r \in message_groups : r.message_id \in Messages /\ r.group_id \in Groups
    /\ nextId \in 1..(MaxGroups + 1)
    /\ opens \in 0..MaxOpens
    /\ \A c \in Clients : pc[c] \in {"idle", "split_delete", "split_insert", "split_close",
                                     "split_alert", "merge_loop", "merge_insert", "merge_close"}

\* ------------------------------------------------------------ properties

\* The store holds exactly what it held when the handler of c started.
StoreAsBefore(c) ==
    /\ issue_groups = pre[c].groups
    /\ message_groups = pre[c].rows

\* Members of g when the handler of c started.
MembersBefore(c, g) == MembersIn(pre[c].rows, g)

\* C1: every message has at most one membership row, in every reachable
\* state (between the writes of a split or a merge as well).
C1_Exclusivity ==
    \A m \in Messages : Cardinality(GroupsOf(m)) <= 1

\* C2: no fetch ever reads the store while a merge has moved some but not
\* all of the source group's messages to the target.
C2_MergeAtomicToReaders == ~sawPartialMerge

\* C3: when a merge of A into B has completed, every message that was in A
\* or B when it started is in B and only in B, A is gone, and no message has
\* lost its membership or gained a second one.
C3_MergeCompleteness ==
    \A c \in Clients :
        (pc[c] = "merge_close" /\ ~rejected[c]) =>
            LET A == h[c].group
                B == h[c].target
            IN  /\ \A m \in MembersBefore(c, A) \cup MembersBefore(c, B) :
                       GroupsOf(m) = {B}
                /\ A \notin Groups
                /\ \A m \in Messages :
                       /\ GroupsOfIn(pre[c].rows, m) # {} => GroupsOf(m) # {}
                       /\ Cardinality(GroupsOfIn(pre[c].rows, m)) <= 1
                             => Cardinality(GroupsOf(m)) <= 1

\* C4: every stored group has at least one membership row, in every
\* reachable state.
C4_NoOrphanGroups ==
    \A g \in Groups : Members(g) # {}

\* C5: a merge whose target does not exist when it starts leaves the store
\* exactly as it was (the source group included).
C5_MergeIntoMissingTargetFails ==
    \A c \in Clients :
        (pc[c] = "merge_close" /\ h[c].target \notin DOMAIN pre[c].groups) =>
            StoreAsBefore(c)

\* The split of client c started with its message in the source group (and
\* in no other group) next to at least one other message, and every write of
\* it was accepted.
SplitCase(c) ==
    /\ pc[c] = "split_close"
    /\ ~rejected[c]
    /\ GroupsOfIn(pre[c].rows, h[c].msg) = {h[c].group}
    /\ MembersBefore(c, h[c].group) \ {h[c].msg} # {}

\* C6: when a split of X out of G has completed (X was in G with at least
\* one other message), X's only membership is in a newly created group
\* whose only member is X, with score 1.0, and G holds its previous members
\* minus X.
C6_SplitPostcondition ==
    \A c \in Clients :
        SplitCase(c) =>
            LET X == h[c].msg
                G == h[c].group
                N == h[c].new
            IN  /\ N \in Groups
                /\ N \notin DOMAIN pre[c].groups
                /\ {r \in message_groups : r.message_id = X} = {Row(X, N, SelfSimilarity)}
                /\ Members(N) = {X}
                /\ Members(G) = MembersBefore(c, G) \ {X}

C6_Witness ==
    \E c \in Clients : SplitCase(c) /\ Members(h[c].new) = {h[c].msg}

\* C7: when a split has removed the last membership of its source group,
\* the source group is no longer stored.
C7_SplitDeletesEmptiedSource ==
    \A c \in Clients :
        (pc[c] = "split_close" /\ ~rejected[c]
            /\ MembersBefore(c, h[c].group) = {h[c].msg}) =>
            h[c].group \notin Groups

\* C8: a split of a message that has no membership in the source group when
\* the split starts leaves every group and every membership as it was.
C8_SplitOfNonMemberFails ==
    \A c \in Clients :
        (pc[c] \in {"split_close", "split_alert"}
            /\ h[c].msg \notin MembersBefore(c, h[c].group)) =>
            StoreAsBefore(c)

\* C9: after a split, either some write was rejected and the store is as it
\* was before, or the new group, the removal of the old membership and the
\* new membership have all taken effect.
C9_SplitAllOrNothing ==
    \A c \in Clients :
        pc[c] \in {"split_close", "split_alert"} =>
            IF rejected[c]
            THEN StoreAsBefore(c)
            ELSE /\ h[c].new \in Groups
                 /\ h[c].msg \notin Members(h[c].group)
                 /\ h[c].msg \in Members(h[c].new)

C11_SecondGroupRejected ==
    [][\A r \in message_groups' \ message_groups :
           GroupsOf(r.message_id) \subseteq {r.group_id}]_vars

\* C12: when a merge has completed, every message it moved from the source
\* to the target has, in the target, the similarity score its row in the
\* source group had when the merge started.
C12_MergePreservesScores ==
    \A c \in Clients :
        (pc[c] = "merge_close" /\ ~rejected[c]) =>
            \A r \in pre[c].rows :
                (/\ r.group_id = h[c].group
                 /\ r.message_id \notin MembersBefore(c, h[c].target)
                 /\ r.message_id \in Members(h[c].target))
                    => Row(r.message_id, h[c].target, r.similarity_score) \in message_groups

\* Client a has run a split and client b a merge on the same group, and
\* neither handler has returned yet.
PairCase(a, b) ==
    /\ a # b
    /\ pc[a] = "split_close"
    /\ pc[b] = "merge_close"
    /\ h[a].group = h[b].group

\* The stores handleSplitMessage passes through when it runs on store s:
\* after the insert of the group, after the delete, after the last insert.
SplitPrefixes(s, g, m, n) ==
    LET groups1 == AddGroup(s.groups, n, SplitGroupRow(m))
    IN  {[groups |-> groups1, rows |-> s.rows],
         [groups |-> groups1, rows |-> DeleteMembership(s.rows, m, g)],
         SplitRun(s, g, m, n)}

\* The stores handleMergeIntoGroup passes through when it runs on store s:
\* the loop has finished the messages of done and has deleted, but not yet
\* inserted, at most one more; or the handler has made its last call.
MergePrefixes(s, g, t, list) ==
    {[groups |-> s.groups, rows |-> MergeLoop(s.rows, DOMAIN s.groups, g, t, done)] :
        done \in SUBSET list}
    \cup
    {[groups |-> s.groups,
      rows |-> DeleteMembership(MergeLoop(s.rows, DOMAIN s.groups, g, t, x[1]), x[2], g)] :
        x \in {y \in (SUBSET list) \X list : y[2] \notin y[1]}}
    \cup {MergeRun(s, g, t, list)}

\* The merge of b started second exactly when the id of the split's new
\* group had been handed out by then.
SplitStartedFirst(a, b) == h[a].new < pre[b].nextId

\* The store when the first of the two handlers started.
PairBase(a, b) == IF SplitStartedFirst(a, b) THEN StoreOf(pre[a]) ELSE StoreOf(pre[b])

\* Between the start of the first handler and the start of the second,
\* nothing but the first handler wrote to the store.
PairAlone(a, b) ==
    IF SplitStartedFirst(a, b)
    THEN StoreOf(pre[b]) \in SplitPrefixes(StoreOf(pre[a]), h[a].group, h[a].msg, h[a].new)
    ELSE StoreOf(pre[a]) \in MergePrefixes(StoreOf(pre[b]), h[b].group, h[b].target,
                                            h[b].list)

OnlyFieldChanged(g, field) ==
    /\ message_groups' = message_groups
    /\ DOMAIN issue_groups' = DOMAIN issue_groups
    /\ \A x \in Groups \ {g} : issue_groups'[x] = issue_groups[x]
    /\ g \in Groups =>
          /\ \A f \in (DOMAIN issue_groups[g]) \ {field, "updated_at"} :
                 issue_groups'[g][f] = issue_groups[g][f]
          /\ issue_groups'[g] # issue_groups[g] =>
                 issue_groups'[g].updated_at > issue_groups[g].updated_at

\* C14: a title, priority, workflow-status or status edit on group g changes
\* only that field of g and refreshes g's updated_at; memberships, and every
\* other group, are left unchanged (the messages table is never written).
C14_EditChangesOneField ==
    [][issue_groups' # issue_groups =>
       \A c \in Clients, ok \in BOOLEAN :
          /\ (\E t \in TitleInputs : HandleSaveTitle(c, t, ok))
                => OnlyFieldChanged(selectedGroup[c], "title")
          /\ (\E p \in PriorityInputs : HandleUpdatePriority(c, p, ok))
                => OnlyFieldChanged(selectedGroup[c], "priority")
          /\ (\E w \in WorkflowInputs : HandleUpdateWorkflowStatus(c, w, ok))
                => OnlyFieldChanged(selectedGroup[c], "workflow_status")
          /\ HandleToggleStatus(c, ok)
                => OnlyFieldChanged(selectedGroup[c], "status")]_vars

\* A group has had its title, its priority and its workflow status edited.
C14_Witness ==
    \E g \in Groups :
        /\ issue_groups[g].title = <<"x">>
        /\ issue_groups[g].priority = "high"
        /\ issue_groups[g].updated_at >= 2

\* C15: when the Thread Index maps the thread of a message to a stored
\* group G (G was created by a message of that thread), the assignment of
\* the message adds its membership in G with score 1.0 and nothing else,
\* whatever its similarity to the members of any group.
C15_ThreadStickiness ==
    [][\A m \in Messages :
          (Assign(m) /\ ThreadMatch(m) # {}) =>
              \E G \in ThreadMatch(m) :
                  /\ message_groups' = message_groups \cup {Row(m, G, SelfSimilarity)}
                  /\ issue_groups' = issue_groups]_vars

\* m5 is in the group m4 created for their thread, with score 1.0, although
\* its similarity to m1 passes the threshold and m1 is in another group.
C15_Witness ==
    \E G \in Groups :
        /\ issue_groups[G].thread = thread["m5"]
        /\ Row("m5", G, SelfSimilarity) \in message_groups
        /\ Row("m4", G, SelfSimilarity) \in message_groups
        /\ Similarity("m5", "m1") >= Threshold
        /\ G \notin GroupsOf("m1")
        /\ GroupsOf("m1") # {}

\* The grouped messages of the category of m, and the highest similarity of
\* m to one of them.
SameCategoryGrouped(m) ==
    {n \in Messages \ {m} : GroupsOf(n) # {} /\ category[n] = category[m]}

\* C16: the assignment of a message with no thread match joins the group of
\* a same-category message of highest similarity, with that similarity as
\* score, when that similarity is at least T; otherwise (lower, or no
\* same-category message is grouped) it creates exactly one new group of
\* the message's category with the message as member.  Messages of other
\* categories play no part.
C16_SimilarityGate ==
    [][\A m \in Messages :
          (Assign(m) /\ ThreadMatch(m) = {}) =>
              IF \E n \in SameCategoryGrouped(m) : Similarity(m, n) >= Threshold
              THEN /\ issue_groups' = issue_groups
                   /\ \E n \in SameCategoryGrouped(m) :
                         /\ \A k \in SameCategoryGrouped(m) :
                                Similarity(m, k) <= Similarity(m, n)
                         /\ \E g \in GroupsOf(n) :
                                message_groups' =
                                    message_groups \cup {Row(m, g, Similarity(m, n))}
              ELSE /\ DOMAIN issue_groups' = Groups \cup {nextId}
                   /\ nextId \notin Groups
                   /\ \A g \in Groups : issue_groups'[g] = issue_groups[g]
                   /\ issue_groups'[nextId].category = category[m]
                   /\ message_groups' =
                          message_groups \cup {Row(m, nextId, SelfSimilarity)}]_vars

\* m4 (best same-category similarity 0.55, and 0.95 to a feature message)
\* has a group of its own; m8 (exactly 0.60 to m3) has joined m3's group
\* with score 0.60.
C16_Witness ==
    /\ \E g \in Groups : Members(g) \cap {"m1", "m2", "m3", "m4"} = {"m4"}
    /\ \E g \in GroupsOf("m3") : Row("m8", g, 60) \in message_groups

\* a and b wait for the engine, are near-duplicates of one category, and
\* match no other message and no registered thread.
NearDuplicates(a, b) ==
    /\ a # b
    /\ {a, b} \subseteq Waiting
    /\ category[a] = category[b]
    /\ Similarity(a, b) >= Threshold
    /\ \A x \in {a, b} :
          /\ thread[x] = NoThread
          /\ \A n \in Messages \ {a, b} :
                 category[n] = category[x] => Similarity(x, n) < Threshold

C19_ConvergesByReReading ==
    \A c \in Clients :
        (dash[c].subscribed /\ dash[c].pending = {} /\ dash[c].fetches = {}) =>
            /\ dash[c].issueGroups = issue_groups
            /\ dash[c].messageCounts = Counts(message_groups)

C21_SplitGroupDefaults ==
    [][Groups' # Groups =>
          \A g \in Groups' \ Groups :
              \E c \in Clients :
                  /\ pc[c] = "idle"
                  /\ pc'[c] = "split_delete"
                  /\ h'[c].new = g
                  /\ issue_groups'[g].category = category[h'[c].msg]
                  /\ issue_groups'[g].summary = summary[h'[c].msg]
                  /\ issue_groups'[g].workflow_status = "backlog"
                  /\ issue_groups'[g].priority = "medium"
                  /\ issue_groups'[g].assignee = Null
                  /\ issue_groups'[g].due_date = Null]_vars

\* A split has inserted its group, for a message whose category and summary
\* differ from those of the group it was split from.
C21_Witness ==
    \E c \in Clients :
        /\ pc[c] = "split_delete"
        /\ h[c].new \in Groups
        /\ h[c].group \in Groups
        /\ issue_groups[h[c].new].summary # issue_groups[h[c].group].summary
        /\ issue_groups[h[c].new].category # issue_groups[h[c].group].category

\* C22: a status toggle that the store has no other reason to refuse, made
\* on a stored group whose status is 'open' by a modal that shows 'open',
\* passes the status constraint and leaves a non-open status stored; made
\* on a group whose stored and shown status is not 'open', it stores 'open'.
C22_ToggleRoundTrip ==
    [][\A c \in Clients :
          (HandleToggleStatus(c, TRUE) /\ selectedGroup[c] \in Groups
              /\ selectedFields[c].status = issue_groups[selectedGroup[c]].status) =>
              LET g == selectedGroup[c]
              IN  /\ UpdateAllowed(issue_groups, g, "status", ToggledStatus(issue_groups[g].status))
                  /\ issue_groups[g].status = "open" => issue_groups'[g].status # "open"
                  /\ issue_groups[g].status # "open" => issue_groups'[g].status = "open"]_vars

C24_ShownStatusIsStored ==
    [][\A c \in Clients, ok \in BOOLEAN :
          (HandleToggleStatus(c, ok) /\ selectedGroup[c] \in Groups) =>
              selectedFields'[c].status = issue_groups'[selectedGroup[c]].status]_vars

\* C25: in every reachable state, for every stored group, status is 'open'
\* exactly when workflow_status is neither 'resolved' nor 'closed'.
C25_StatusFieldsConsistent ==
    \A g \in Groups :
        issue_groups[g].status = "open" <=>
            issue_groups[g].workflow_status \notin {"resolved", "closed"}

\* C26: handleSaveTitle writes nothing when the edited title is empty or
\* blank or equals the title shown; otherwise the stored title and the title
\* shown become the trimmed edited text; and when the store rejects the
\* write, the stored title and the title shown stay as they were.
C26_SaveTitle ==
    [][(issue_groups' # issue_groups \/ selectedFields' # selectedFields) =>
          \A c \in Clients, t \in TitleInputs, ok \in BOOLEAN :
              (HandleSaveTitle(c, t, ok) /\ selectedGroup[c] \in Groups) =>
                  LET g == selectedGroup[c]
                      shown == selectedFields[c].title
                      skipped == Trim(t) = <<>> \/ t = shown
                  IN  /\ skipped => /\ issue_groups' = issue_groups
                                    /\ selectedFields' = selectedFields
                      /\ (~skipped /\ ok) => /\ issue_groups'[g].title = Trim(t)
                                             /\ selectedFields'[c].title = Trim(t)
                      /\ ~ok => /\ issue_groups'[g].title = issue_groups[g].title
                                /\ selectedFields'[c].title = shown]_vars

\* A title has been saved: the group a modal shows is stored with the
\* trimmed text, which the modal shows too, and the row was written once.
C26_Witness ==
    \E c \in Clients :
        /\ selectedGroup[c] \in Groups
        /\ issue_groups[selectedGroup[c]].title = <<"x">>
        /\ selectedFields[c].title = <<"x">>
        /\ issue_groups[selectedGroup[c]].updated_at = 1

\* C27: in every reachable state every membership row references a stored
\* group and a stored message; in particular the delete of a merge's source
\* group leaves no membership row that points at it.
C27_ReferentialIntegrity ==
    /\ \A r \in message_groups : r.group_id \in Groups /\ r.message_id \in Messages
    /\ \A c \in Clients :
           (pc[c] = "merge_close" /\ h[c].group \notin Groups) =>
               h[c].group \notin {r.group_id : r \in message_groups}

\* A merge has deleted its source while a message it had not moved was
\* still a member of it; the membership went with the group.
C27_Witness ==
    \E c \in Clients :
        /\ pc[c] = "merge_close"
        /\ h[c].group \in DOMAIN pre[c].groups
        /\ h[c].group \notin Groups
        /\ \E m \in MembersIn(pre[c].rows, h[c].group) \ h[c].list : GroupsOf(m) = {}

\* the sum of the entries of counts
RECURSIVE SumCounts(_)
SumCounts(counts) ==
    IF DOMAIN counts = {}
    THEN 0
    ELSE LET g == CHOOSE x \in DOMAIN counts : TRUE
         IN  counts[g] + SumCounts([x \in (DOMAIN counts) \ {g} |-> counts[x]])

\* C28: the counts a successful fetchMessageCounts computes have, for every
\* group with a membership row in the rows it read, that number of rows, no
\* entry for any other group (whose card shows 0), and sum to the number of
\* rows read; and messageCounts changes only by taking such counts.
C28_MessageCounts ==
    [][\A c \in Clients :
          /\ \A f \in dash'[c].fetches \ dash[c].fetches :
                 (f.phase = "counts_read" /\ f.ok) =>
                     /\ DOMAIN f.counts = {r.group_id : r \in message_groups}
                     /\ \A g \in Groups :
                            ShownCount(f.counts, g) = Cardinality(Members(g))
                     /\ SumCounts(f.counts) = Cardinality(message_groups)
          /\ dash'[c].messageCounts # dash[c].messageCounts =>
                 \E f \in dash[c].fetches \ dash'[c].fetches :
                     f.phase = "counts_read" /\ f.ok /\ dash'[c].messageCounts = f.counts]_vars

\* A dashboard holds counts read in the middle of a split: one message left
\* in group 1, and a stored group that has no entry.
C28_Witness ==
    \E c \in Clients :
        /\ dash[c].subscribed
        /\ 1 \in DOMAIN dash[c].messageCounts
        /\ dash[c].messageCounts[1] = 1
        /\ \E g \in DOMAIN dash[c].issueGroups : g \notin DOMAIN dash[c].messageCounts

\* the call of fetchIssueGroups that fetch f of client c stands for returns
\* in this step: its first select failed, or its fetchMessageCounts returned
CallEnds(c, f) == (GroupsResponse(c, f) /\ ~f.ok) \/ CountsResponse(c, f)

\* C29 as stated: a failed fetchIssueGroups sets error; once error is set it
\* stays set and the dashboard shows the error view in every later state;
\* and every call of fetchIssueGroups ends with loading false.
C29_ErrorViewFromThenOn ==
    [][\A c \in Clients :
          /\ (\E f \in dash[c].fetches : GroupsResponse(c, f) /\ ~f.ok) => dash'[c].error
          /\ dash[c].error => (dash'[c].error /\ View(dash'[c]) = "error")
          /\ (\E f \in dash[c].fetches : CallEnds(c, f)) => ~dash'[c].loading]_vars

\* C29, amended: a failed fetchIssueGroups sets error; once error is set it
\* stays set, and the dashboard never shows the list again: it shows the
\* error view whenever loading is false (the loading view otherwise); and
\* every call of fetchIssueGroups ends with loading false.
C29_ErrorSticky ==
    [][\A c \in Clients :
          /\ (\E f \in dash[c].fetches : GroupsResponse(c, f) /\ ~f.ok) => dash'[c].error
          /\ dash[c].error =>
                 /\ dash'[c].error
                 /\ View(dash'[c]) # "list"
                 /\ ~dash'[c].loading => View(dash'[c]) = "error"
          /\ (\E f \in dash[c].fetches : CallEnds(c, f)) => ~dash'[c].loading]_vars

\* A dashboard whose error is set holds the current list, read after a
\* split, with no call in flight.
C29_Witness ==
    \E c \in Clients :
        /\ dash[c].error
        /\ ~dash[c].loading
        /\ dash[c].fetches = {}
        /\ dash[c].pending = {}
        /\ 3 \in Groups
        /\ dash[c].issueGroups = issue_groups

\* the groups of the list l
ListedIn(l) == {l[i] : i \in 1..Len(l)}

\* group passes the three filters of dashboard d: its category filter is
\* 'all' or the group's category, its time filter is 'all' or the group was
\* created at or after the cutoff of the last render, and its query is blank
\* or occurs, lower-cased, in the lower-cased title or summary
Passes(group, d) ==
    /\ d.selectedCategory = "all" \/ group.category = d.selectedCategory
    /\ \/ d.selectedTimeFilter = "all"
       \/ group.created_at >= d.now - Window[d.selectedTimeFilter]
    /\ \/ Trim(d.searchQuery) = <<>>
       \/ includes(toLowerCase(group.title), toLowerCase(d.searchQuery))
       \/ includes(toLowerCase(group.summary), toLowerCase(d.searchQuery))

\* the groups of out stand in the order they have in the list in
InOrder(out, in) ==
    \A i, j \in 1..Len(out) :
        i < j => \E a, b \in 1..Len(in) : a < b /\ in[a] = out[i] /\ in[b] = out[j]

\* filterIssueGroups applied again, when the clock reads now, to what the
\* last render of d made of the list
FilteredAgain(d, now) ==
    filterIssueGroups(filteredGroups(d), d.selectedCategory, d.selectedTimeFilter,
                      d.searchQuery, now)

\* what the last render of d shows is exactly the groups of its list that
\* pass the three filters, each once and in the order of the list; with
\* 'all', 'all' and a blank query it is the list itself
SelectsInOrder(d) ==
    /\ ListedIn(filteredGroups(d)) = {group \in ListedIn(d.issueGroups) : Passes(group, d)}
    /\ Len(filteredGroups(d)) = Cardinality(ListedIn(filteredGroups(d)))
    /\ InOrder(filteredGroups(d), d.issueGroups)
    /\ (d.selectedCategory = "all" /\ d.selectedTimeFilter = "all" /\ Trim(d.searchQuery) = <<>>)
          => filteredGroups(d) = d.issueGroups

\* C30 as stated: filterIssueGroups returns exactly the groups of its input
\* that pass the category, time and search filters, in their original order,
\* returns the input for 'all', 'all' and a blank query, and applied to its
\* own result - at the same or any later reading of the clock - changes
\* nothing.
C30_FilterIdempotent ==
    \A c \in Watchers :
        /\ SelectsInOrder(dash[c])
        /\ \A now \in Clock :
               now >= dash[c].now => FilteredAgain(dash[c], now) = filteredGroups(dash[c])

\* C30, amended: filterIssueGroups returns exactly the groups of its input
\* that pass the category, time and search filters (the cutoff taken from
\* the clock reading of the call), in their original order, returns the
\* input for 'all', 'all' and a blank query, and applied to its own result
\* at the same clock reading, or with the time filter 'all', changes nothing.
C30_FilterSelects ==
    \A c \in Watchers :
        /\ SelectsInOrder(dash[c])
        /\ FilteredAgain(dash[c], dash[c].now) = filteredGroups(dash[c])
        /\ dash[c].selectedTimeFilter = "all" =>
               \A now \in Clock : FilteredAgain(dash[c], now) = filteredGroups(dash[c])

\* All three filters are set and drop one group of a list of two.
C30_Witness ==
    \E c \in Watchers :
        /\ dash[c].selectedCategory # "all"
        /\ dash[c].selectedTimeFilter # "all"
        /\ Trim(dash[c].searchQuery) # <<>>
        /\ Len(dash[c].issueGroups) = 2
        /\ Len(filteredGroups(dash[c])) = 1

====
